---- MODULE Spec2Model ----
(***************************************************************************)
(* Model of src/src/data_represent.rs: typed attributes (Attr), the schema *)
(* (Ctx), record construction with group-key hashing (Record::new), groups *)
(* and collections with their set operations, and the fold engine.         *)
(*                                                                         *)
(* Conventions                                                             *)
(*  - raw text (&str) is a tuple of one-character strings, so that parsing *)
(*    is computed character by character;                                  *)
(*  - f32 values are exact rationals [num, den] in lowest terms (den > 0); *)
(*    [0,0] is NaN and [+-1,0] is +-infinity.  f32 rounding is not         *)
(*    modelled; the inputs are chosen so that no rounding happens;         *)
(*  - i32 arithmetic is done on mathematical integers: the inputs stay far *)
(*    from the i32 limits, so no subtraction overflows or wraps;           *)
(*  - a panic is an outcome [status |-> "panic", msg |-> ...];             *)
(*  - DefaultHasher is taken to be injective: a group_id is the sequence   *)
(*    of values written to the hasher.                                     *)
(***************************************************************************)
EXTENDS Integers, Sequences, FiniteSets, TLC

VARIABLES
    ctx,             \* the schema: attr_type, group_by, and group_by's iteration order
    rec_a,           \* outcome of Record::new on a raw row
    rec_b,           \* outcome of Record::new on a reordering of the same raw row
    store,           \* the records owned by the caller (Vec<Record>), by position
    cols,            \* the caller's Collection values, by slot
    ret              \* outcome of the last Collection / fold call

vars == <<ctx, rec_a, rec_b, store, cols, ret>>

----------------------------------------------------------------------------
(* Bounds of the model *)

MaxRawLen == 2      \* columns in a raw row handed to Record::new
MaxStore == 3       \* records the caller builds and keeps
MaxNewLen == 2      \* record references handed to Collection::new

(* Program constants *)

I32Max == 2147483647
I32Min == -I32Max - 1

----------------------------------------------------------------------------
(* Characters and raw text *)

Digits == <<"0", "1", "2", "3", "4", "5", "6", "7", "8", "9">>

IsDigit(c) == \E i \in 1..10 : Digits[i] = c

DigitVal(c) == (CHOOSE i \in 1..10 : Digits[i] = c) - 1

\* ASCII codes of the characters that occur in the inputs (byte order of str)
AsciiTable ==
    << <<"+", 43>>, <<"-", 45>>, <<".", 46>>,
       <<"0", 48>>, <<"1", 49>>, <<"2", 50>>, <<"3", 51>>, <<"4", 52>>,
       <<"5", 53>>, <<"6", 54>>, <<"7", 55>>, <<"8", 56>>, <<"9", 57>>,
       <<"A", 65>>, <<"E", 69>>, <<"F", 70>>, <<"L", 76>>, <<"R", 82>>,
       <<"S", 83>>, <<"T", 84>>, <<"U", 85>>,
       <<"a", 97>>, <<"e", 101>>, <<"f", 102>>, <<"l", 108>>, <<"r", 114>>,
       <<"s", 115>>, <<"t", 116>>, <<"u", 117>> >>

Ascii(c) == (CHOOSE i \in 1..Len(AsciiTable) : AsciiTable[i][1] = c)

CharCode(c) == AsciiTable[Ascii(c)][2]

RECURSIVE AllDigits(_)
AllDigits(s) == IF s = <<>> THEN TRUE ELSE IsDigit(Head(s)) /\ AllDigits(Tail(s))

RECURSIVE DigitsValue(_, _)
\* value of a digit string, accumulated left to right
DigitsValue(s, acc) ==
    IF s = <<>> THEN acc ELSE DigitsValue(Tail(s), acc * 10 + DigitVal(Head(s)))

RECURSIVE Pow10(_)
Pow10(k) == IF k = 0 THEN 1 ELSE 10 * Pow10(k - 1)

----------------------------------------------------------------------------
(* Integer and rational arithmetic *)

Abs(x) == IF x < 0 THEN -x ELSE x

Sign(x) == IF x < 0 THEN -1 ELSE IF x > 0 THEN 1 ELSE 0

RECURSIVE Gcd(_, _)
Gcd(a, b) == IF b = 0 THEN a ELSE Gcd(b, a % b)

\* Rust's `/` on integers: the quotient rounded toward zero
TruncDiv(a, b) == Sign(a) * Sign(b) * (Abs(a) \div Abs(b))

Rat(n, d) ==
    IF d = 0 THEN [num |-> Sign(n), den |-> 0]
    ELSE LET g == Gcd(Abs(n), Abs(d))
             s == Sign(d)
         IN  [num |-> s * (n \div g), den |-> s * (d \div g)]

NaN == [num |-> 0, den |-> 0]

IsNaN(q) == q.num = 0 /\ q.den = 0

RatOfInt(v) == [num |-> v, den |-> 1]

\* f32 addition (exact; inf and NaN as in IEEE 754)
RatAdd(p, q) ==
    IF IsNaN(p) \/ IsNaN(q) THEN NaN
    ELSE IF p.den = 0 /\ q.den = 0 THEN (IF p.num = q.num THEN p ELSE NaN)
    ELSE IF p.den = 0 THEN p
    ELSE IF q.den = 0 THEN q
    ELSE Rat(p.num * q.den + q.num * p.den, p.den * q.den)

\* f32 division of p by the f32 value of the integer n
RatDivInt(p, n) ==
    IF IsNaN(p) THEN NaN
    ELSE IF n = 0 THEN (IF p.num = 0 THEN NaN ELSE [num |-> Sign(p.num), den |-> 0])
    ELSE IF p.den = 0 THEN [num |-> p.num * Sign(n), den |-> 0]
    ELSE Rat(p.num, p.den * n)

\* f32::partial_cmp: "Less", "Equal", "Greater", or "None" when a NaN is involved
RatCmp(p, q) ==
    IF IsNaN(p) \/ IsNaN(q) THEN "None"
    ELSE LET l == IF p.den = 0 /\ q.den = 0 THEN p.num
                  ELSE IF p.den = 0 THEN p.num
                  ELSE IF q.den = 0 THEN 0
                  ELSE p.num * q.den
             r == IF p.den = 0 /\ q.den = 0 THEN q.num
                  ELSE IF p.den = 0 THEN 0
                  ELSE IF q.den = 0 THEN q.num
                  ELSE q.num * p.den
         IN  IF l < r THEN "Less" ELSE IF l > r THEN "Greater" ELSE "Equal"

\* `v.trunc() as i32`: round toward zero, then a saturating cast (NaN gives 0)
TruncAsI32(q) ==
    IF IsNaN(q) THEN 0
    ELSE IF q.den = 0 THEN (IF q.num > 0 THEN I32Max ELSE I32Min)
    ELSE LET t == TruncDiv(q.num, q.den)
         IN  IF t > I32Max THEN I32Max ELSE IF t < I32Min THEN I32Min ELSE t

----------------------------------------------------------------------------
(* Attr: the four-case scalar.  One record shape for all cases, the unused *)
(* fields at a fixed default, so that equality is the derived PartialEq.   *)

AttrInt(v) == [case |-> "Int", num |-> v, den |-> 1, b |-> FALSE, s |-> <<>>]

AttrFloat(q) == [case |-> "Float", num |-> q.num, den |-> q.den, b |-> FALSE, s |-> <<>>]

AttrBool(v) == [case |-> "Bool", num |-> 0, den |-> 1, b |-> v, s |-> <<>>]

AttrStr(v) == [case |-> "Str", num |-> 0, den |-> 1, b |-> FALSE, s |-> v]

Cases == <<"Int", "Float", "Bool", "Str">>

\* position of the variant in the enum declaration (its discriminant)
CaseIndex(c) == CHOOSE i \in 1..4 : Cases[i] = c

FloatOf(a) == [num |-> a.num, den |-> a.den]

\* str::parse::<i32>: optional sign, then one or more decimal digits.  (The
\* inputs have fewer than ten digits, so the range check never fails.)
ParseI32(raw) ==
    LET signed == raw # <<>> /\ Head(raw) \in {"+", "-"}
        body   == IF signed THEN Tail(raw) ELSE raw
        mag    == DigitsValue(body, 0)
    IN  IF body = <<>> \/ ~AllDigits(body)
        THEN [ok |-> FALSE, v |-> 0]
        ELSE [ok |-> TRUE, v |-> IF signed /\ Head(raw) = "-" THEN -mag ELSE mag]

\* index of the first "." in s, or 0
DotAt(s) == IF \E i \in 1..Len(s) : s[i] = "."
            THEN CHOOSE i \in 1..Len(s) : s[i] = "." /\ \A j \in 1..(i - 1) : s[j] # "."
            ELSE 0

\* str::parse::<f32> on plain decimal text: optional sign, digits, optional
\* "." and digits, at least one digit in all.  (Exponents and the words inf
\* and nan, which Rust also accepts, do not occur in the inputs.)
ParseF32(raw) ==
    LET signed == raw # <<>> /\ Head(raw) \in {"+", "-"}
        body   == IF signed THEN Tail(raw) ELSE raw
        dot    == DotAt(body)
        ip     == IF dot = 0 THEN body ELSE SubSeq(body, 1, dot - 1)
        fp     == IF dot = 0 THEN <<>> ELSE SubSeq(body, dot + 1, Len(body))
        mag    == Rat(DigitsValue(ip \o fp, 0), Pow10(Len(fp)))
    IN  IF (ip = <<>> /\ fp = <<>>) \/ ~AllDigits(ip) \/ ~AllDigits(fp)
        THEN [ok |-> FALSE, v |-> NaN]
        ELSE [ok |-> TRUE,
              v |-> IF signed /\ Head(raw) = "-" THEN Rat(-mag.num, mag.den) ELSE mag]

BoolTrueTexts == {<<"t","r","u","e">>, <<"T","r","u","e">>, <<"T","R","U","E">>,
                  <<"t">>, <<"T">>}

BoolFalseTexts == {<<"f","a","l","s","e">>, <<"F","a","l","s","e">>,
                   <<"F","A","L","S","E">>, <<"f">>, <<"F">>}

NoAttr == AttrBool(FALSE)

Ok(a) == [status |-> "ok", msg |-> "", header |-> "", attr |-> a]

Panic(m, h) == [status |-> "panic", msg |-> m, header |-> h, attr |-> NoAttr]

\* mutant of Attr_new: a header the schema lacks is taken as text
Attr_new_Lenient(c, header, raw_attr) ==
    IF header \notin DOMAIN c.attr_type THEN Ok(AttrStr(raw_attr))
    ELSE CASE c.attr_type[header] = "Int" ->
                LET p == ParseI32(raw_attr)
                IN  IF p.ok THEN Ok(AttrInt(p.v)) ELSE Panic("expect int", header)
           [] c.attr_type[header] = "Float" ->
                LET p == ParseF32(raw_attr)
                IN  IF p.ok THEN Ok(AttrFloat(p.v)) ELSE Panic("expect float", header)
           [] c.attr_type[header] = "Bool" ->
                IF raw_attr \in BoolTrueTexts THEN Ok(AttrBool(TRUE))
                ELSE IF raw_attr \in BoolFalseTexts THEN Ok(AttrBool(FALSE))
                ELSE Panic("expect bool", header)
           [] c.attr_type[header] = "Str" -> Ok(AttrStr(raw_attr))

\* Attr::new(ctx, header, raw_attr)
Attr_new(c, header, raw_attr) ==
    IF header \notin DOMAIN c.attr_type
    THEN Panic("header is not found in context info", header)
    ELSE CASE c.attr_type[header] = "Int" ->
                LET p == ParseI32(raw_attr)
                IN  IF p.ok THEN Ok(AttrInt(p.v)) ELSE Panic("expect int", header)
           [] c.attr_type[header] = "Float" ->
                LET p == ParseF32(raw_attr)
                IN  IF p.ok THEN Ok(AttrFloat(p.v)) ELSE Panic("expect float", header)
           [] c.attr_type[header] = "Bool" ->
                IF raw_attr \in BoolTrueTexts THEN Ok(AttrBool(TRUE))
                ELSE IF raw_attr \in BoolFalseTexts THEN Ok(AttrBool(FALSE))
                ELSE Panic("expect bool", header)
           [] c.attr_type[header] = "Str" -> Ok(AttrStr(raw_attr))

----------------------------------------------------------------------------
(* Ctx: the schema.  attr_type keeps only the case of the sample value,    *)
(* the one thing Attr::new reads from it.  order is the order in which     *)
(* group_by.iter() visits the keys: unspecified for a HashMap, but fixed   *)
(* as long as the map is not changed.                                      *)

EmptyMap == [x \in {} |-> x]

\* HashMap::insert: add the key or overwrite its value
MapInsert(m, k, v) == [x \in (DOMAIN m) \cup {k} |-> IF x = k THEN v ELSE m[x]]

Unique == [kind |-> "Unique", start |-> 0, step |-> 0]

Interval(start, step) == [kind |-> "Interval", start |-> start, step |-> step]

NoRule == [kind |-> "None", start |-> 0, step |-> 0]

Ctx_new == [attr_type |-> EmptyMap, group_by |-> EmptyMap, order |-> <<>>]

\* the sequences that list every element of S once
Perms(S) == {p \in [1..Cardinality(S) -> S] : \A x \in S : \E i \in DOMAIN p : p[i] = x}

\* the iteration orders group_by may have after `name` was inserted: the
\* same order when the key was there already (the value is overwritten in
\* place), any order of the keys when the key is new
OrdersAfterInsert(c, name) ==
    IF name \in DOMAIN c.group_by THEN {c.order}
    ELSE Perms((DOMAIN c.group_by) \cup {name})

\* Ctx::add_attr_type(attr_name, attr_type, group_by); group_by = NoRule is
\* Option::None.  The result for the iteration order `ord`.
Add_attr_type(c, attr_name, attr_case, group_by, ord) ==
    IF group_by.kind = "None"
    THEN [c EXCEPT !.attr_type = MapInsert(c.attr_type, attr_name, attr_case)]
    ELSE [attr_type |-> MapInsert(c.attr_type, attr_name, attr_case),
          group_by  |-> MapInsert(c.group_by, attr_name, group_by),
          order     |-> ord]

----------------------------------------------------------------------------
(* Record::new *)

\* what Hash::hash writes to the hasher: w is the width in bytes of a fixed
\* width value n, or 0 for a str s (its bytes, then 0xff)
HashI32(v) == [w |-> 4, n |-> v, s |-> <<>>]

HashBool(v) == [w |-> 1, n |-> IF v THEN 1 ELSE 0, s |-> <<>>]

HashStr(v) == [w |-> 0, n |-> 0, s |-> v]

NoHash == [w |-> 0, n |-> 0, s |-> <<>>]

\* the match of lines 68-86 for one grouping column whose attribute is
\* present: what is hashed, or the panic of a division by zero
Contribution(a, rule) ==
    CASE a.case = "Int" ->
            IF rule.kind = "Unique" THEN [panic |-> FALSE, h |-> HashI32(a.num)]
            ELSE IF rule.step = 0 THEN [panic |-> TRUE, h |-> NoHash]
            ELSE [panic |-> FALSE, h |-> HashI32(TruncDiv(a.num - rule.start, rule.step))]
      [] a.case = "Float" ->
            IF rule.kind = "Unique" THEN [panic |-> FALSE, h |-> HashI32(TruncAsI32(FloatOf(a)))]
            ELSE IF rule.step = 0 THEN [panic |-> TRUE, h |-> NoHash]
            ELSE [panic |-> FALSE,
                  h |-> HashI32(TruncDiv(TruncAsI32(FloatOf(a)) - rule.start, rule.step))]
      [] a.case = "Bool" -> [panic |-> FALSE, h |-> HashBool(a.b)]
      [] a.case = "Str" -> [panic |-> FALSE, h |-> HashStr(a.s)]

NoRecord == [attrs |-> EmptyMap, group_id |-> <<>>]

RecOk(r) == [status |-> "ok", msg |-> "", header |-> "", rec |-> r]

RecPanic(m, h) == [status |-> "panic", msg |-> m, header |-> h, rec |-> NoRecord]

RECURSIVE ParseAttrs(_, _, _)
\* lines 60-63: the columns are parsed in input order and collected into a
\* HashMap (a later value for the same header replaces the earlier one);
\* the first Attr::new that panics ends the call
ParseAttrs(c, raw_record, attrs) ==
    IF raw_record = <<>> THEN RecOk([attrs |-> attrs, group_id |-> <<>>])
    ELSE LET header == Head(raw_record)[1]
             a == Attr_new(c, header, Head(raw_record)[2])
         IN  IF a.status = "panic" THEN RecPanic(a.msg, a.header)
             ELSE ParseAttrs(c, Tail(raw_record), MapInsert(attrs, header, a.attr))

RECURSIVE HashGroup(_, _, _, _)
\* lines 66-88: the grouping columns are visited in group_by's iteration
\* order, each writing its contribution to the hasher
HashGroup(c, attrs, todo, hasher) ==
    IF todo = <<>> THEN RecOk([attrs |-> attrs, group_id |-> hasher])
    ELSE LET attr_name == Head(todo)
         IN  IF attr_name \notin DOMAIN attrs
             THEN RecPanic("key attribute is not found", attr_name)
             ELSE LET k == Contribution(attrs[attr_name], c.group_by[attr_name])
                  IN  IF k.panic THEN RecPanic("attempt to divide by zero", attr_name)
                      ELSE HashGroup(c, attrs, Tail(todo), Append(hasher, k.h))

\* mutant of Record_new: the grouping columns are hashed in the order the
\* row lists them, not in the schema's
Record_new_InputOrder(c, raw_record) ==
    LET parsed == ParseAttrs(c, raw_record, EmptyMap)
        headers == [i \in DOMAIN raw_record |-> raw_record[i][1]]
        listed(h) == h \in DOMAIN c.group_by
        absent(h) == \A i \in DOMAIN raw_record : raw_record[i][1] # h
    IN  IF parsed.status = "panic" THEN parsed
        ELSE HashGroup(c, parsed.rec.attrs,
                       SelectSeq(headers, listed) \o SelectSeq(c.order, absent), <<>>)

\* Record::new(ctx, raw_record)
Record_new(c, raw_record) ==
    LET parsed == ParseAttrs(c, raw_record, EmptyMap)
    IN  IF parsed.status = "panic" THEN parsed
        ELSE HashGroup(c, parsed.rec.attrs, c.order, <<>>)

----------------------------------------------------------------------------
(* Ordering of Attr: #[derive(PartialOrd)] on the enum.  Values of         *)
(* different cases are ordered by the position of their variant; values of *)
(* the same case by their payload.                                         *)

OrdOfInt(x, y) == IF x < y THEN "Less" ELSE IF x > y THEN "Greater" ELSE "Equal"

RECURSIVE StrCmp(_, _)
\* str ordering: lexicographic by byte
StrCmp(x, y) ==
    IF x = <<>> /\ y = <<>> THEN "Equal"
    ELSE IF x = <<>> THEN "Less"
    ELSE IF y = <<>> THEN "Greater"
    ELSE IF Head(x) # Head(y) THEN OrdOfInt(CharCode(Head(x)), CharCode(Head(y)))
    ELSE StrCmp(Tail(x), Tail(y))

Attr_partial_cmp(x, y) ==
    IF x.case # y.case THEN OrdOfInt(CaseIndex(x.case), CaseIndex(y.case))
    ELSE CASE x.case = "Int" -> OrdOfInt(x.num, y.num)
           [] x.case = "Float" -> RatCmp(FloatOf(x), FloatOf(y))
           [] x.case = "Bool" -> OrdOfInt(IF x.b THEN 1 ELSE 0, IF y.b THEN 1 ELSE 0)
           [] x.case = "Str" -> StrCmp(x.s, y.s)

\* Option<&Attr>::partial_cmp(attrs.get(name), Some(val)): None is less than
\* every Some
Option_partial_cmp(attrs, name, val) ==
    IF name \notin DOMAIN attrs THEN "Less" ELSE Attr_partial_cmp(attrs[name], val)

----------------------------------------------------------------------------
(* Group and Collection.  A record reference (ByAddress<&Record>) is the   *)
(* position of the record in the caller's store: two references are equal  *)
(* exactly when they point to the same record.  A Collection is the map    *)
(* groups: group_id -> Group.                                              *)

Group_new(id) == [records |-> {}, id |-> id]

RECURSIVE CollectInto_ByValue(_, _, _)
\* mutant of CollectInto: set membership by attribute equality, so a record
\* equal to one already in its group is not inserted
CollectInto_ByValue(recs, refs, groups) ==
    IF refs = <<>> THEN groups
    ELSE LET record == Head(refs)
             gid    == recs[record].group_id
             g1     == IF gid \in DOMAIN groups THEN groups
                       ELSE MapInsert(groups, gid, Group_new(gid))
             dup    == \E r \in g1[gid].records : recs[r] = recs[record]
             g2     == IF dup THEN g1 ELSE [g1 EXCEPT ![gid].records = @ \cup {record}]
         IN  CollectInto_ByValue(recs, Tail(refs), g2)

RECURSIVE CollectInto(_, _, _)
\* the for_each of lines 166-175 over the remaining references
CollectInto(recs, refs, groups) ==
    IF refs = <<>> THEN groups
    ELSE LET record == Head(refs)
             gid    == recs[record].group_id
             g1     == IF gid \in DOMAIN groups THEN groups
                       ELSE MapInsert(groups, gid, Group_new(gid))
             g2     == [g1 EXCEPT ![gid].records = @ \cup {record}]
         IN  CollectInto(recs, Tail(refs), g2)

\* Collection::new(records)
Collection_new(recs, refs) == CollectInto(recs, refs, EmptyMap)

\* the filter_map + collect of filter_records, intersection and difference:
\* kept maps the ids for which the closure computes a record set to that
\* set; an id whose set is empty yields None, the others Some((id, Group))
FilterMapGroups(kept) ==
    [id \in {x \in DOMAIN kept : kept[x] # {}} |-> [records |-> kept[id], id |-> id]]

\* Collection::filter_records(self, filter_cond)
Filter_records(recs, self, filter_cond) ==
    FilterMapGroups(
        [id \in DOMAIN self |->
            {record \in self[id].records :
                Option_partial_cmp(recs[record].attrs, filter_cond.attr_name,
                                   filter_cond.val) = filter_cond.ord}])

\* mutant of Intersection: a group left without records is kept
Intersection_KeepEmpty(self, other) ==
    [id \in (DOMAIN self) \cap (DOMAIN other) |->
        [records |-> self[id].records \cap other[id].records, id |-> id]]

\* Collection::intersection(self, &other): an id other lacks yields None
Intersection(self, other) ==
    FilterMapGroups(
        [id \in (DOMAIN self) \cap (DOMAIN other) |->
            self[id].records \cap other[id].records])

RECURSIVE UnionInto(_, _, _)
\* the for_each of lines 244-254 over the ids of other still to visit
UnionInto(groups, other, todo) ==
    IF todo = {} THEN groups
    ELSE LET id == CHOOSE x \in todo : TRUE
             g  == IF id \in DOMAIN groups
                   THEN [groups EXCEPT ![id].records = @ \cup other[id].records]
                   ELSE MapInsert(groups, id, other[id])
         IN  UnionInto(g, other, todo \ {id})

\* mutant of Union: a group present on both sides keeps only self's records
Union_NoMerge(self, other) ==
    [id \in (DOMAIN self) \cup (DOMAIN other) |->
        IF id \in DOMAIN self THEN self[id] ELSE other[id]]

\* Collection::union(self, &other)
Union(self, other) == UnionInto(self, other, DOMAIN other)

\* Collection::difference(self, &other): an id other lacks yields None
Difference(self, other) ==
    FilterMapGroups(
        [id \in (DOMAIN self) \cap (DOMAIN other) |->
            self[id].records \ other[id].records])

----------------------------------------------------------------------------
(* Fold *)

FoldOk(result) == [status |-> "ok", msg |-> "", result |-> result]

FoldPanic == [status |-> "panic",
              msg |-> "AVG operation should be performed on int or float",
              result |-> EmptyMap]

\* mutant of NumericValue: a missing attribute panics (unwrap for unwrap_or)
NumericValue_MissingPanics(attrs, attr_name) ==
    IF attr_name \notin DOMAIN attrs THEN [panic |-> TRUE, v |-> NaN]
    ELSE CASE attrs[attr_name].case = "Int" -> [panic |-> FALSE, v |-> RatOfInt(attrs[attr_name].num)]
           [] attrs[attr_name].case = "Float" -> [panic |-> FALSE, v |-> FloatOf(attrs[attr_name])]
           [] OTHER -> [panic |-> TRUE, v |-> NaN]

\* the match of lines 304-308 / 328-332 on attrs.get(attr_name), a missing
\* attribute standing for Attr::Float(0f32)
NumericValue(attrs, attr_name) ==
    LET a == IF attr_name \in DOMAIN attrs THEN attrs[attr_name] ELSE AttrFloat(RatOfInt(0))
    IN  CASE a.case = "Int" -> [panic |-> FALSE, v |-> RatOfInt(a.num)]
          [] a.case = "Float" -> [panic |-> FALSE, v |-> FloatOf(a)]
          [] OTHER -> [panic |-> TRUE, v |-> NaN]

RECURSIVE SumCount(_, _, _, _, _)
\* the fold over group.records of avg (lines 302-311) and, without the
\* count, of sum (lines 327-333), in some iteration order of the HashSet
SumCount(recs, todo, attr_name, sum, count) ==
    IF todo = {} THEN [panic |-> FALSE, sum |-> sum, count |-> count]
    ELSE LET x == CHOOSE r \in todo : TRUE
             v == NumericValue(recs[x].attrs, attr_name)
         IN  IF v.panic THEN [panic |-> TRUE, sum |-> NaN, count |-> 0]
             ELSE SumCount(recs, todo \ {x}, attr_name, RatAdd(sum, v.v), count + 1)

GroupFold(recs, group, attr_name) == SumCount(recs, group.records, attr_name, RatOfInt(0), 0)

\* Collection::avg(attr_name)
Avg(recs, self, attr_name) ==
    IF \E id \in DOMAIN self : GroupFold(recs, self[id], attr_name).panic THEN FoldPanic
    ELSE FoldOk([id \in DOMAIN self |->
                    LET f == GroupFold(recs, self[id], attr_name)
                    IN  AttrFloat(RatDivInt(f.sum, f.count))])

\* Collection::sum(attr_name)
Sum(recs, self, attr_name) ==
    IF \E id \in DOMAIN self : GroupFold(recs, self[id], attr_name).panic THEN FoldPanic
    ELSE FoldOk([id \in DOMAIN self |-> AttrFloat(GroupFold(recs, self[id], attr_name).sum)])

\* Collection::count()
Count(self) == FoldOk([id \in DOMAIN self |-> AttrInt(Cardinality(self[id].records))])

\* Collection::fold(op)
Fold(recs, self, op) ==
    CASE op.kind = "AVG" -> Avg(recs, self, op.attr_name)
      [] op.kind = "SUM" -> Sum(recs, self, op.attr_name)
      [] op.kind = "COUNT" -> Count(self)

----------------------------------------------------------------------------
(* Inputs *)

Headers == {"userid", "time"}

RawTexts == {<<"0">>, <<"1", ".", "5">>, <<"t">>}

\* the rules a column may be registered with; NoRule is Option::None
Rules == {NoRule, Unique, Interval(1, 3), Interval(1, 0), Interval(-1, -3)}

RawRows == UNION {[1..n -> Headers \X RawTexts] : n \in 0..MaxRawLen}

\* the input reordered by the permutation p of its positions
Permuted(raw, p) == [i \in 1..Len(raw) |-> raw[p[i]]]

NotBuilt == [input |-> <<>>, out |-> [status |-> "none", msg |-> "", header |-> "", rec |-> NoRecord]]

EmptyCollection == EmptyMap

Slots == {"A", "B"}

NoRet == [op |-> "none", slot |-> "", arg |-> <<>>, status |-> "none", msg |-> "",
          result |-> EmptyMap]

----------------------------------------------------------------------------
(* Specification SpecRecord: a schema is registered column by column, then *)
(* a record is built from a raw row, and a second record from the same row *)
(* reordered or with one raw value replaced.                               *)

InitRecord ==
    /\ ctx = Ctx_new
    /\ rec_a = NotBuilt
    /\ rec_b = NotBuilt
    /\ store = <<>>
    /\ cols = [s \in Slots |-> EmptyCollection]
    /\ ret = NoRet

\* ctx.add_attr_type(name, sample of case, rule); nothing is checked
AddAttrType(name, case, rule) ==
    /\ rec_a.out.status = "none"
    /\ \E ord \in OrdersAfterInsert(ctx, name) :
          ctx' = Add_attr_type(ctx, name, case, rule, ord)
    /\ UNCHANGED <<rec_a, rec_b, store, cols, ret>>

\* let a = Record::new(&ctx, raw)
RecordNew(raw) ==
    /\ rec_a.out.status = "none"
    /\ rec_a' = [input |-> raw, out |-> Record_new(ctx, raw)]
    /\ UNCHANGED <<ctx, rec_b, store, cols, ret>>

\* let b = Record::new(&ctx, the columns of a's row in the order p)
RecordNewPermuted(p) ==
    /\ rec_a.out.status # "none"
    /\ rec_b.out.status = "none"
    /\ LET raw == Permuted(rec_a.input, p)
       IN  rec_b' = [input |-> raw, out |-> Record_new(ctx, raw)]
    /\ UNCHANGED <<ctx, rec_a, store, cols, ret>>

\* let b = Record::new(&ctx, a's row with the raw value of column i replaced)
RecordNewOther(i, text) ==
    /\ rec_a.out.status # "none"
    /\ rec_b.out.status = "none"
    /\ text # rec_a.input[i][2]
    /\ LET raw == [rec_a.input EXCEPT ![i] = <<rec_a.input[i][1], text>>]
       IN  rec_b' = [input |-> raw, out |-> Record_new(ctx, raw)]
    /\ UNCHANGED <<ctx, rec_a, store, cols, ret>>

NextRecord ==
    \/ \E name \in Headers, i \in 1..4, rule \in Rules : AddAttrType(name, Cases[i], rule)
    \/ \E raw \in RawRows : RecordNew(raw)
    \/ \E p \in Perms(DOMAIN rec_a.input) : RecordNewPermuted(p)
    \/ \E i \in DOMAIN rec_a.input, text \in RawTexts : RecordNewOther(i, text)

SpecRecord == InitRecord /\ [][NextRecord]_vars

----------------------------------------------------------------------------
(* Specification Spec: against the schema of the tests (make_a_ctx) the    *)
(* caller builds records from raw rows into its store, makes collections   *)
(* of references to them, applies the set operations and folds.            *)

\* tests::make_a_ctx, for the iteration order ord of its two grouping columns
Make_a_ctx(ord) ==
    LET c1 == Add_attr_type(Ctx_new, "userid", "Int", Unique, <<"userid">>)
        c2 == Add_attr_type(c1, "time", "Float", Interval(1, 3), ord)
        c3 == Add_attr_type(c2, "i", "Int", NoRule, ord)
        c4 == Add_attr_type(c3, "f", "Float", NoRule, ord)
        c5 == Add_attr_type(c4, "b", "Bool", NoRule, ord)
    IN  Add_attr_type(c5, "s", "Str", NoRule, ord)

\* the well-formed rows of the caller's input, in the order they are read
InputFile ==
    << << <<"userid", <<"0">> >>, <<"time", <<"1", ".", "5">> >>, <<"i", <<"3">> >> >>,
       << <<"userid", <<"0">> >>, <<"time", <<"1", ".", "5">> >>, <<"i", <<"3">> >> >>,
       << <<"userid", <<"1">> >>, <<"time", <<"1">> >>, <<"b", <<"t", "r", "u", "e">> >> >>,
       << <<"userid", <<"0">> >>, <<"time", <<"2", ".", "5">> >>, <<"i", <<"-", "1">> >> >> >>

\* malformed rows: a column the schema lacks (tests::unexpected_header), text
\* for the Integer column i (tests::invalid_attr_type), text for the Float
\* column time, a number for the Boolean column b, two bad columns in one
\* row, and a row without the grouping column time
MalformedRows ==
    { << <<"userid", <<"0">> >>, <<"time", <<"0">> >>, <<"x", <<"0">> >> >>,
      << <<"userid", <<"0">> >>, <<"time", <<"0">> >>, <<"i", <<"t", "r", "u", "e">> >> >>,
      << <<"userid", <<"0">> >>, <<"time", <<"t">> >> >>,
      << <<"userid", <<"0">> >>, <<"time", <<"0">> >>, <<"b", <<"0">> >> >>,
      << <<"i", <<"t", "r", "u", "e">> >>, <<"x", <<"0">> >> >>,
      << <<"userid", <<"0">> >> >> }

\* the rows Record::new may be called with next
NextRows ==
    MalformedRows
    \cup (IF Len(store) < Len(InputFile) THEN {InputFile[Len(store) + 1]} ELSE {})

Orderings == {"Less", "Equal", "Greater"}

FilterConds ==
    [attr_name : {"i", "time"}, val : {AttrInt(0), AttrFloat(RatOfInt(2))}, ord : Orderings]

FoldOperations ==
    {[kind |-> "COUNT", attr_name |-> ""]}
    \cup [kind : {"SUM", "AVG"}, attr_name : {"i", "time", "b"}]

RefSeqs == UNION {[1..n -> 1..Len(store)] : n \in 0..MaxNewLen}

Ret(op, slot, arg, status, msg, result) ==
    [op |-> op, slot |-> slot, arg |-> arg, status |-> status, msg |-> msg, result |-> result]

Init ==
    /\ \E ord \in Perms({"userid", "time"}) : ctx = Make_a_ctx(ord)
    /\ rec_a = NotBuilt
    /\ rec_b = NotBuilt
    /\ store = <<>>
    /\ cols = [s \in Slots |-> EmptyCollection]
    /\ ret = NoRet

\* records.push(Record::new(&ctx, raw)): the store can grow only while no
\* collection borrows from it
StoreRecord(raw) ==
    /\ Len(store) < MaxStore
    /\ \A s \in Slots : cols[s] = EmptyCollection
    /\ LET out == Record_new(ctx, raw)
       IN  /\ store' = IF out.status = "ok" THEN Append(store, out.rec) ELSE store
           /\ ret' = Ret("Record::new", "", raw, out.status, out.msg, EmptyMap)
    /\ UNCHANGED <<ctx, rec_a, rec_b, cols>>

\* cols[s] = Collection::new(refs)
CollectionNew(s, refs) ==
    /\ cols' = [cols EXCEPT ![s] = Collection_new(store, refs)]
    /\ ret' = Ret("Collection::new", s, refs, "ok", "", EmptyMap)
    /\ UNCHANGED <<ctx, rec_a, rec_b, store>>

\* cols[s] = cols[s].filter_records(cond)
FilterRecords(s, cond) ==
    /\ cols' = [cols EXCEPT ![s] = Filter_records(store, cols[s], cond)]
    /\ ret' = Ret("filter_records", s, <<>>, "ok", "", EmptyMap)
    /\ UNCHANGED <<ctx, rec_a, rec_b, store>>

\* cols[s] = cols[s].intersection(&cols[o])   (o = s: of a clone with itself)
DoIntersection(s, o) ==
    /\ cols' = [cols EXCEPT ![s] = Intersection(cols[s], cols[o])]
    /\ ret' = Ret("intersection", s, <<>>, "ok", "", EmptyMap)
    /\ UNCHANGED <<ctx, rec_a, rec_b, store>>

\* cols[s] = cols[s].union(&cols[o])
DoUnion(s, o) ==
    /\ cols' = [cols EXCEPT ![s] = Union(cols[s], cols[o])]
    /\ ret' = Ret("union", s, <<>>, "ok", "", EmptyMap)
    /\ UNCHANGED <<ctx, rec_a, rec_b, store>>

\* cols[s] = cols[s].difference(&cols[o])
DoDifference(s, o) ==
    /\ cols' = [cols EXCEPT ![s] = Difference(cols[s], cols[o])]
    /\ ret' = Ret("difference", s, <<>>, "ok", "", EmptyMap)
    /\ UNCHANGED <<ctx, rec_a, rec_b, store>>

\* cols[s].fold(op)
DoFold(s, op) ==
    /\ LET out == Fold(store, cols[s], op)
       IN  ret' = Ret("fold", s, op, out.status, out.msg, out.result)
    /\ UNCHANGED <<ctx, rec_a, rec_b, store, cols>>

Next ==
    \/ \E raw \in NextRows : StoreRecord(raw)
    \/ \E s \in Slots, refs \in RefSeqs : CollectionNew(s, refs)
    \/ \E s \in Slots, cond \in FilterConds : FilterRecords(s, cond)
    \/ \E s, o \in Slots : DoIntersection(s, o)
    \/ \E s, o \in Slots : DoUnion(s, o)
    \/ \E s, o \in Slots : DoDifference(s, o)
    \/ \E s \in Slots, op \in FoldOperations : DoFold(s, op)

Spec == Init /\ [][Next]_vars

----------------------------------------------------------------------------
(* Specification SpecAttr: against the schema of the tests, Attr::new is   *)
(* applied to one column of a raw row, as Record::new does for each column *)
(* (line 62).                                                              *)

\* the upper-case form of an ASCII letter; any other character is itself
ToUpper(c) ==
    IF CharCode(c) \in 97..122
    THEN AsciiTable[CHOOSE i \in 1..Len(AsciiTable) : AsciiTable[i][2] = CharCode(c) - 32][1]
    ELSE c

\* the lower-case form of an ASCII letter; any other character is itself
ToLower(c) ==
    IF CharCode(c) \in 65..90
    THEN AsciiTable[CHOOSE i \in 1..Len(AsciiTable) : AsciiTable[i][2] = CharCode(c) + 32][1]
    ELSE c

BoolWords == {<<"t", "r", "u", "e">>, <<"f", "a", "l", "s", "e">>, <<"t">>, <<"f">>}

RECURSIVE Casings(_)
\* every letter casing of the lower-case word w
Casings(w) ==
    IF w = <<>> THEN {<<>>}
    ELSE {<<c>> \o t : c \in {Head(w), ToUpper(Head(w))}, t \in Casings(Tail(w))}

\* the raw values handed to Attr::new: the words for a Boolean in every
\* casing, and text that is none of them
AttrTexts ==
    UNION {Casings(w) : w \in BoolWords}
    \cup {<<>>, <<"0">>, <<"1">>, <<"-", "1">>, <<"1", ".", "5">>,
          <<"t", "r", "u">>, <<"t", "t">>, <<"f", "a", "l", "s", "e", "e">>}

\* the columns of the tests' schema, and one it lacks
AttrHeaders == {"userid", "time", "i", "f", "b", "s", "x"}

\* Attr::new(&ctx, header, raw_attr)
AttrNew(header, raw_attr) ==
    /\ LET out == Attr_new(ctx, header, raw_attr)
       IN  ret' = Ret("Attr::new", "", <<header, raw_attr>>, out.status, out.msg,
                      IF out.status = "ok" THEN MapInsert(EmptyMap, header, out.attr)
                      ELSE EmptyMap)
    /\ UNCHANGED <<ctx, rec_a, rec_b, store, cols>>

NextAttr == \E header \in AttrHeaders, raw_attr \in AttrTexts : AttrNew(header, raw_attr)

SpecAttr == Init /\ [][NextAttr]_vars

----------------------------------------------------------------------------
(* Properties of record construction, checked under SpecRecord *)

BothBuilt == rec_a.out.status = "ok" /\ rec_b.out.status = "ok"

\* floor(a / b) for b # 0
FloorDiv(a, b) == IF b > 0 THEN a \div b ELSE (-a) \div (-b)

\* the integer a numeric attribute is bucketed by: the value, truncated for a float
BucketValue(a) == IF a.case = "Float" THEN TruncAsI32(FloatOf(a)) ELSE a.num

\* the claimed bucket relation of one grouping column: the same value under
\* Unique, the same half-open bucket [start + k*step, start + (k+1)*step)
\* under Interval (on a numeric column with step # 0)
SameBucket(rule, x, y) ==
    IF rule.kind = "Interval" /\ x.case \in {"Int", "Float"} /\ rule.step # 0
    THEN FloorDiv(BucketValue(x) - rule.start, rule.step)
         = FloorDiv(BucketValue(y) - rule.start, rule.step)
    ELSE x = y

\* C1: two records built against the same schema have equal group_id if and
\* only if every grouping column puts both into the same bucket under its rule
C1_GroupIdIffSameBuckets ==
    BothBuilt =>
        ((rec_a.out.rec.group_id = rec_b.out.rec.group_id)
         <=> (\A name \in DOMAIN ctx.group_by :
                SameBucket(ctx.group_by[name], rec_a.out.rec.attrs[name],
                           rec_b.out.rec.attrs[name])))

PairsOf(raw) == {raw[i] : i \in DOMAIN raw}

DistinctHeaders(raw) == \A i, j \in DOMAIN raw : raw[i][1] = raw[j][1] => i = j

SameResult == /\ rec_a.out.status = rec_b.out.status
              /\ rec_a.out.rec = rec_b.out.rec

\* C9 as stated: group_id and attributes depend only on the set of (column
\* name, raw value) pairs, so the same pairs in any order give the same record
C9_DependsOnlyOnPairs ==
    (rec_b.out.status # "none" /\ PairsOf(rec_a.input) = PairsOf(rec_b.input)
     /\ Len(rec_a.input) = Len(rec_b.input))
        => SameResult

\* C9 amended: identical input gives an identical record, and so does any
\* reordering of an input in which no column name occurs twice
C9_DeterministicAndOrderFree ==
    (rec_b.out.status # "none" /\ PairsOf(rec_a.input) = PairsOf(rec_b.input)
     /\ Len(rec_a.input) = Len(rec_b.input)
     /\ (rec_a.input = rec_b.input \/ DistinctHeaders(rec_a.input)))
        => SameResult

\* C9 witness: a row with two grouping columns was built in both orders
C9_Witness ==
    /\ BothBuilt
    /\ Len(rec_a.input) = 2
    /\ DistinctHeaders(rec_a.input)
    /\ rec_b.input = <<rec_a.input[2], rec_a.input[1]>>
    /\ Len(rec_a.out.rec.group_id) = 2
    /\ rec_a.out.rec.group_id[1] # rec_a.out.rec.group_id[2]

\* a rule the claim wants rejected: Interval with step 0, or Interval on a
\* Boolean or Text column
InvalidRule(c, name) ==
    /\ c.group_by[name].kind = "Interval"
    /\ (c.group_by[name].step = 0 \/ c.attr_type[name] \in {"Bool", "Str"})

\* C10: an invalid Interval rule is rejected at registration or by
\* Record::new: it never ends in a division by zero, and no record is built
\* under a schema that holds one
C10_InvalidRuleRejected ==
    /\ rec_a.out.msg # "attempt to divide by zero"
    /\ rec_a.out.status = "ok" => ~(\E name \in DOMAIN ctx.group_by : InvalidRule(ctx, name))

\* position of the grouping column name in group_by's iteration order
OrderIndex(c, name) == CHOOSE k \in 1..Len(c.order) : c.order[k] = name

\* an Interval rule with step # 0 on a column whose attribute is numeric
Bucketing(rule, a) ==
    rule.kind = "Interval" /\ rule.step # 0 /\ a.case \in {"Int", "Float"}

\* C11: for a numeric grouping column under Interval{start, step} with
\* step # 0, what the record's group key takes from the column is
\* floor((v - start) / step), v being the value (truncated for a float),
\* also when v < start and when step is negative
C11_ContributionIsFloor ==
    rec_a.out.status = "ok" =>
        \A name \in DOMAIN ctx.group_by :
            LET rule == ctx.group_by[name]
                a == rec_a.out.rec.attrs[name]
            IN  Bucketing(rule, a) =>
                    rec_a.out.rec.group_id[OrderIndex(ctx, name)]
                        = HashI32(FloorDiv(BucketValue(a) - rule.start, rule.step))

----------------------------------------------------------------------------
(* Properties of collections and folds, checked under Spec *)

Members(c) == UNION {c[id].records : id \in DOMAIN c}

\* C2: no group of a reachable Collection is empty, and the group stored
\* under key k has id k and holds only records whose group_id is k
C2_GroupsWellFormed ==
    \A s \in Slots : \A k \in DOMAIN cols[s] :
        /\ cols[s][k].records # {}
        /\ cols[s][k].id = k
        /\ \A r \in cols[s][k].records : r \in DOMAIN store /\ store[r].group_id = k

\* C2 witness: an intersection has dropped a group of its receiver
C2_Witness ==
    /\ ret.op = "intersection"
    /\ ret.slot = "A"
    /\ Cardinality(DOMAIN cols["A"]) = 1
    /\ Cardinality(DOMAIN cols["B"]) = 2
    /\ Members(cols["A"]) # Members(cols["B"])

\* the difference the claim describes: every group of a, less the members
\* of b's group with the same id, the groups left empty dropped
ClaimedDifference(a, b) ==
    LET kept(id) == IF id \in DOMAIN b THEN a[id].records \ b[id].records
                    ELSE a[id].records
    IN  [id \in {x \in DOMAIN a : kept(x) # {}} |-> [records |-> kept(id), id |-> id]]

\* C3: A.difference(B) is A's groups less B's members; a group of A whose
\* id is absent from B passes through unchanged
C3_DifferenceKeepsAbsentGroups ==
    \A a, b \in Slots : Difference(cols[a], cols[b]) = ClaimedDifference(cols[a], cols[b])

\* the filter the claim describes: the record has the attribute, of the
\* same case as val, and it compares to val with exactly the relation ord
ClaimedKeep(record, cond) ==
    /\ cond.attr_name \in DOMAIN store[record].attrs
    /\ store[record].attrs[cond.attr_name].case = cond.val.case
    /\ Attr_partial_cmp(store[record].attrs[cond.attr_name], cond.val) = cond.ord

\* C4: filter_records retains exactly the records that have the attribute,
\* of the same case as val, in the relation ord to val
C4_FilterRetainsExactly ==
    \A s \in Slots, cond \in FilterConds :
        Members(Filter_records(store, cols[s], cond))
            = {r \in Members(cols[s]) : ClaimedKeep(r, cond)}

\* C5: A.difference(A) is empty; the members of A.union(B).intersection(B)
\* are members of B; A.intersection(B).union(B) holds every member of every
\* group of B, so that taking B away from it leaves nothing
C5_SetAlgebraLaws ==
    \A a, b \in Slots :
        LET A == cols[a]
            B == cols[b]
            IuB == Union(Intersection(A, B), B)
        IN  /\ Difference(A, A) = EmptyCollection
            /\ Members(Intersection(Union(A, B), B)) \subseteq Members(B)
            /\ \A k \in DOMAIN B : k \in DOMAIN IuB /\ B[k].records \subseteq IuB[k].records
            /\ Difference(IuB, B) = EmptyCollection

\* C5 witness: after a set operation, A and B overlap and neither holds the other
C5_Witness ==
    /\ ret.op \in {"intersection", "union", "difference"}
    /\ Members(cols["A"]) \cap Members(cols["B"]) # {}
    /\ Members(cols["A"]) \ Members(cols["B"]) # {}
    /\ Members(cols["B"]) \ Members(cols["A"]) # {}
    /\ Cardinality(DOMAIN cols["B"]) = 2

\* C6: Collection::new puts every record instance passed to it into exactly
\* one group, the one keyed by its group_id; the members of all groups are
\* exactly the instances passed (an instance passed twice counts once, two
\* attribute-equal instances count twice); there is one group per group_id
C6_NewPartitions ==
    ret.op = "Collection::new" =>
        LET c == cols[ret.slot]
            refs == {ret.arg[i] : i \in DOMAIN ret.arg}
        IN  /\ \A r \in refs : \A k \in DOMAIN c :
                    (r \in c[k].records) <=> (k = store[r].group_id)
            /\ \A r \in refs : store[r].group_id \in DOMAIN c
            /\ Members(c) = refs
            /\ Cardinality(DOMAIN c) = Cardinality({store[r].group_id : r \in refs})

\* C6 witness: two attribute-equal record instances were passed and both kept
C6_Witness ==
    /\ ret.op = "Collection::new"
    /\ Len(ret.arg) = 2
    /\ ret.arg[1] # ret.arg[2]
    /\ store[ret.arg[1]] = store[ret.arg[2]]
    /\ Cardinality(Members(cols[ret.slot])) = 2

RECURSIVE DirectSum(_, _, _)
\* the sum, over the records at positions 1..n of the store that are in
\* members, of the numeric value of attr_name, 0 where it is missing
DirectSum(members, attr_name, n) ==
    IF n = 0 THEN RatOfInt(0)
    ELSE LET rest == DirectSum(members, attr_name, n - 1)
         IN  IF n \notin members \/ attr_name \notin DOMAIN store[n].attrs THEN rest
             ELSE IF store[n].attrs[attr_name].case = "Int"
                  THEN RatAdd(rest, RatOfInt(store[n].attrs[attr_name].num))
                  ELSE RatAdd(rest, FloatOf(store[n].attrs[attr_name]))

\* op folds a numeric attribute over c: Count, or no member of c holds a
\* Boolean or Text value under op's attribute name
NumericFold(c, op) ==
    \/ op.kind = "COUNT"
    \/ \A r \in Members(c) :
          op.attr_name \in DOMAIN store[r].attrs
              => store[r].attrs[op.attr_name].case \in {"Int", "Float"}

\* C7: a fold over a numeric attribute gives one entry per group: Count the
\* member count n >= 1 as an integer, Sum the sum of the attribute over the
\* members (0 for a member without it), Average that sum divided by n
C7_FoldCorrect ==
    (ret.op = "fold" /\ NumericFold(cols[ret.slot], ret.arg)) =>
        LET c == cols[ret.slot]
            op == ret.arg
        IN  /\ ret.status = "ok"
            /\ DOMAIN ret.result = DOMAIN c
            /\ \A k \in DOMAIN c :
                  LET n == Cardinality(c[k].records)
                      ds == DirectSum(c[k].records, op.attr_name, Len(store))
                      v == ret.result[k]
                  IN  /\ n >= 1
                      /\ op.kind = "COUNT" => v = AttrInt(n)
                      /\ op.kind = "SUM" => v = AttrFloat(ds)
                      /\ op.kind = "AVG" =>
                            /\ v.case = "Float"
                            /\ v.den > 0
                            /\ v.num * n * ds.den = ds.num * v.den

\* C7 witness: a sum was folded over a collection of two groups, one of two
\* members and one whose member lacks the attribute
C7_Witness ==
    /\ ret.op = "fold"
    /\ ret.arg.kind = "SUM"
    /\ ret.status = "ok"
    /\ \E k \in DOMAIN cols[ret.slot] : Cardinality(cols[ret.slot][k].records) = 2
    /\ \E r \in Members(cols[ret.slot]) : ret.arg.attr_name \notin DOMAIN store[r].attrs
    /\ \E k \in DOMAIN ret.result : ret.result[k].num # 0

\* C8 as stated: neither Record::new nor fold ever aborts with a panic
C8_NeverAborts == ret.status # "panic"

\* raw text that parses as the case declared for its column
Parses(case, text) ==
    CASE case = "Int" -> ParseI32(text).ok
      [] case = "Float" -> ParseF32(text).ok
      [] case = "Bool" -> text \in BoolTrueTexts \cup BoolFalseTexts
      [] case = "Str" -> TRUE

BadColumn(c, col) == col[1] \notin DOMAIN c.attr_type \/ ~Parses(c.attr_type[col[1]], col[2])

\* the panic message Attr::new is to give for the bad column col
BadColumnMsg(c, col) ==
    IF col[1] \notin DOMAIN c.attr_type THEN "header is not found in context info"
    ELSE CASE c.attr_type[col[1]] = "Int" -> "expect int"
           [] c.attr_type[col[1]] = "Float" -> "expect float"
           [] c.attr_type[col[1]] = "Bool" -> "expect bool"

\* C8 amended: a raw row with an unknown or unparseable column makes
\* Record::new panic with the message of the first such column, a row
\* without a grouping column makes it panic with "key attribute is not
\* found", and a SUM or AVG over an attribute that is Boolean or Text in
\* some member panics; the call returns nothing and the store is unchanged
C8_ErrorsPanic ==
    [][/\ ret'.op = "Record::new" =>
            LET raw == ret'.arg
                bad == {i \in DOMAIN raw : BadColumn(ctx, raw[i])}
                first == CHOOSE i \in bad : \A j \in bad : i <= j
            IN  /\ bad # {} =>
                      /\ ret'.status = "panic"
                      /\ ret'.msg = BadColumnMsg(ctx, raw[first])
                      /\ store' = store
                /\ (bad = {} /\ \E name \in DOMAIN ctx.group_by :
                                    \A i \in DOMAIN raw : raw[i][1] # name) =>
                      /\ ret'.status = "panic"
                      /\ ret'.msg = "key attribute is not found"
                      /\ store' = store
       /\ (ret'.op = "fold" /\ ~NumericFold(cols[ret'.slot], ret'.arg)) =>
            /\ ret'.status = "panic"
            /\ ret'.msg = "AVG operation should be performed on int or float"
            /\ ret'.result = EmptyMap
      ]_vars

\* C8 witness: Record::new was given text for the Integer column i and panicked
C8_Witness ==
    /\ ret.op = "Record::new"
    /\ ret.status = "panic"
    /\ ret.msg = "expect int"
    /\ \E i \in DOMAIN ret.arg : ret.arg[i] = <<"i", <<"t", "r", "u", "e">> >>

----------------------------------------------------------------------------
(* Properties of Attr::new, checked under SpecAttr *)

\* raw text with every letter in lower case
Lower(text) == [i \in DOMAIN text |-> ToLower(text[i])]

\* C12: for a column declared Boolean, "true" and "t" in any letter casing
\* parse to true, "false" and "f" in any letter casing parse to false, and
\* every other text fails as a Boolean mismatch
C12_BoolAnyCasing ==
    (ret.op = "Attr::new" /\ ret.arg[1] \in DOMAIN ctx.attr_type
        /\ ctx.attr_type[ret.arg[1]] = "Bool") =>
        LET low == Lower(ret.arg[2])
        IN  IF low \in {<<"t", "r", "u", "e">>, <<"t">>}
            THEN ret.status = "ok" /\ ret.result[ret.arg[1]] = AttrBool(TRUE)
            ELSE IF low \in {<<"f", "a", "l", "s", "e">>, <<"f">>}
            THEN ret.status = "ok" /\ ret.result[ret.arg[1]] = AttrBool(FALSE)
            ELSE ret.status = "panic" /\ ret.msg = "expect bool"

====
